---- MODULE Spec2Model ----
(***************************************************************************)
(* Model of the resilient stream + command layer of asyncLio-bot:          *)
(*   src/lichess.py        Lichess.get / Lichess.post (backoff-decorated), *)
(*                         the command wrappers, watch_control_stream,     *)
(*                         watch_game_stream                               *)
(*   src/event_handler.py  EventHandler.run                                *)
(*                                                                         *)
(* The three kinds of task the program runs share no mutable state (each   *)
(* generator and each decorated call keeps its own locals), so a behaviour *)
(* follows ONE task, chosen in Init by `task`:                             *)
(*   "control"  EventHandler.run consuming watch_control_stream            *)
(*   "game"     a consumer of watch_game_stream(game_id), including the    *)
(*              get_ongoing_games call of its except clause                *)
(*   "command"  one invocation of a command wrapper through get / post     *)
(*                                                                         *)
(* The decorators @backoff.on_exception(backoff.expo, HTTPStatusError      *)
(* [, max_time=300]) are modelled by what the backoff library does with    *)
(* its defaults: wait generator expo (1, 2, 4, ...), jitter full_jitter    *)
(* (uniform on [0, value]), the wait capped at max_time - elapsed, elapsed *)
(* sampled at the top of each attempt, and the exception re-raised when    *)
(* the retrier gives up.  Time is counted in whole seconds.                *)
(***************************************************************************)
EXTENDS Integers, Sequences, FiniteSets, TLC

(* ------------------------------ bounds --------------------------------- *)
\* total number of lines the server sends on the observed stream
MaxLines == 3
\* cap on the number of attempts to open the observed stream
MaxOpens == 3
\* cap on the attempts of one decorated call (get has no ceiling of its own)
MaxTries == 10
\* longest duration, in seconds, of one HTTP request/response exchange
MaxReqDur == 1

(* -------------------------- program constants -------------------------- *)
\* @backoff.on_exception(..., max_time=300) on Lichess.post
max_time == 300

(* ------------------------------ variables ------------------------------ *)
VARIABLES
    task,          \* which task this behaviour follows
    \* --- one decorated call (get / post) and the wrapper around it
    cmd_pc,        \* "idle" | "attempt" | "waiting" | "sleep" | "returned" | "raised"
    cmd_op,        \* the wrapper being executed ("none" when idle)
    cmd_tries,     \* backoff: tries
    cmd_t,         \* seconds since the call started (now - start), see clock
    cmd_elapsed,   \* backoff: elapsed, sampled at the top of the attempt
    cmd_requests,  \* HTTP requests issued by this invocation
    cmd_statuses,  \* status codes received by this invocation, in order
    cmd_waits,     \* <<value, seconds>> of the first retries of this invocation
    cmd_sleep,     \* seconds of the pending asyncio.sleep
    cmd_result,    \* what the wrapper returned ("none" before)
    cmd_exc,       \* the exception that left the wrapper ("none" if none)
    \* --- the stream reader (async generator) under observation
    rd_pc,         \* "idle" | "open" | "opened" | "reading" | "yielded" | "query" | "done" | "raised"
    rd_status,     \* status code of the last streaming response
    rd_sessions,   \* streaming responses currently open
    rd_opens,      \* attempts to open the stream so far
    rd_queries,    \* get_ongoing_games calls made by the reader
    rd_fault,      \* last fault met by the reader ("none" if none)
    rd_event,      \* the event handed over at the last yield
    rd_line,       \* the last line read from the response body
    srv_sent,      \* lines the server has sent on the stream so far
    delivered,     \* ids of the events yielded to the consumer, in order
    ongoing,       \* game_id is listed by /api/account/playing
    \* --- EventHandler.run
    eh_pc,         \* "init" | "next" | "in_challenge" | "returned" | "raised"
    calls,         \* handler invocations on the game manager, in order
    ch_active,     \* on_challenge coroutines started and not yet finished
    mgr_started,   \* times game_manager.run() was started as a task
    mgr_pc         \* "not_started" | "running" | "failed"

cmd_vars == <<cmd_pc, cmd_op, cmd_tries, cmd_t, cmd_elapsed, cmd_requests,
              cmd_statuses, cmd_waits, cmd_sleep, cmd_result, cmd_exc>>
rd_vars  == <<rd_pc, rd_status, rd_sessions, rd_opens, rd_queries, rd_fault,
              rd_event, rd_line, srv_sent, delivered>>
eh_vars  == <<eh_pc, calls, ch_active, mgr_started, mgr_pc>>
vars     == <<task, cmd_vars, rd_vars, ongoing, eh_vars>>

(* ------------------------------- values -------------------------------- *)
Tasks == {"control", "game", "command"}

\* status codes the server answers with: success, success other than 200,
\* client error, server error
Statuses == {200, 204, 404, 500}

Last(s) == s[Len(s)]

(* ----------------------- Lichess.get / Lichess.post -------------------- *)
PostOps == {"accept_challenge", "make_move"}
GetOps  == {"get_ongoing_games"}

\* which decorated method a wrapper goes through
MethodOf(op) == IF op \in GetOps THEN "get" ELSE "post"

\* Mutant of the decorators: get carries max_time=300 as well
HasMaxTime_all(method) == TRUE

\* only post is decorated with max_time
HasMaxTime(method) == method = "post"

\* Mutants of the branch `if response.status_code < 500: return response`
returns_response_below_400(status) == status < 400
returns_response_inverted(status) == status >= 500

\* get / post: `if response.status_code < 500: return response`,
\* else response.raise_for_status() raises httpx.HTTPStatusError
returns_response(status) == status < 500

\* Mutant of expo: a constant wait generator
expo_constant(n) == 1

\* backoff.expo: the n-th value (n = 1, 2, ...) is factor * base^(n-1) = 2^(n-1)
expo(n) == 2 ^ (n - 1)

\* backoff.full_jitter: random.uniform(0, value), sampled at both ends and
\* in the middle
full_jitter(value) == {0, value \div 2, value}

Min(a, b) == IF a < b THEN a ELSE b

\* backoff._next_wait: `seconds = min(seconds, max_time - elapsed)` when the
\* decorator has a max_time
next_wait(method, seconds, elapsed) ==
    IF HasMaxTime(method) THEN Min(seconds, max_time - elapsed) ELSE seconds

\* the clock of a call, d seconds later.  Only a call decorated with max_time
\* compares the clock with anything, so only such a call keeps one.
clock(method, t, d) == IF HasMaxTime(method) THEN t + d ELSE t

\* backoff retry loop: max_time_exceeded
max_time_exceeded(method, elapsed) ==
    HasMaxTime(method) /\ elapsed >= max_time

\* the listing a 200 answer of /api/account/playing carries
Listing == IF ongoing THEN "[game_id]" ELSE "[]"

\* what each wrapper makes of the response it got back:
\*   accept_challenge, make_move: status_code == 200 -> True, else False
\*   get_ongoing_games: status_code == 200 -> the listed ids, else []
wrapper_result(op, status) ==
    IF op \in PostOps
    THEN (IF status = 200 THEN "True" ELSE "False")
    ELSE (IF status = 200 THEN Listing ELSE "[]")

\* a wrapper is entered: the decorated call starts with fresh backoff state
call_start(op) ==
    /\ cmd_pc' = "attempt"
    /\ cmd_op' = op
    /\ cmd_tries' = 0
    /\ cmd_t' = 0
    /\ cmd_elapsed' = 0
    /\ cmd_requests' = 0
    /\ cmd_statuses' = <<>>
    /\ cmd_waits' = <<>>
    /\ cmd_sleep' = 0
    /\ cmd_result' = "none"
    /\ cmd_exc' = "none"

\* the caller has taken the wrapper's result: the frame of the call is gone
call_end ==
    /\ cmd_pc' = "idle"
    /\ cmd_op' = "none"
    /\ cmd_tries' = 0
    /\ cmd_t' = 0
    /\ cmd_elapsed' = 0
    /\ cmd_requests' = 0
    /\ cmd_statuses' = <<>>
    /\ cmd_waits' = <<>>
    /\ cmd_sleep' = 0
    /\ cmd_result' = "none"
    /\ cmd_exc' = "none"

\* a command wrapper is invoked by the manager
command_invoke ==
    /\ task = "command"
    /\ cmd_pc = "idle"
    /\ \E op \in PostOps \cup GetOps : call_start(op)
    /\ UNCHANGED <<task, rd_vars, ongoing, eh_vars>>

\* top of the retry loop: tries += 1, elapsed sampled, the request is sent
retry_attempt ==
    /\ cmd_pc = "attempt"
    /\ cmd_tries < MaxTries
    /\ cmd_pc' = "waiting"
    /\ cmd_tries' = cmd_tries + 1
    /\ cmd_elapsed' = cmd_t
    /\ cmd_requests' = cmd_requests + 1
    /\ UNCHANGED <<task, cmd_op, cmd_t, cmd_statuses, cmd_waits, cmd_sleep,
                   cmd_result, cmd_exc, rd_vars, ongoing, eh_vars>>

\* a response below 500 arrives: get/post return it, the wrapper converts it
response_returned ==
    /\ cmd_pc = "waiting"
    /\ \E status \in Statuses, dur \in 0..MaxReqDur :
        /\ returns_response(status)
        /\ cmd_t' = clock(MethodOf(cmd_op), cmd_t, dur)
        /\ cmd_statuses' = Append(cmd_statuses, status)
        /\ cmd_result' = wrapper_result(cmd_op, status)
    /\ cmd_pc' = "returned"
    /\ UNCHANGED <<task, cmd_op, cmd_tries, cmd_elapsed, cmd_requests,
                   cmd_waits, cmd_sleep, cmd_exc, rd_vars, ongoing, eh_vars>>

\* a 5xx arrives, raise_for_status raises HTTPStatusError and the retrier
\* schedules the next attempt after a jittered, capped wait
response_backoff ==
    /\ cmd_pc = "waiting"
    /\ ~max_time_exceeded(MethodOf(cmd_op), cmd_elapsed)
    /\ \E status \in Statuses, dur \in 0..MaxReqDur :
        /\ ~returns_response(status)
        /\ cmd_t' = clock(MethodOf(cmd_op), cmd_t, dur)
        /\ cmd_statuses' = Append(cmd_statuses, status)
    /\ \E seconds \in full_jitter(expo(cmd_tries)) :
        /\ cmd_sleep' = next_wait(MethodOf(cmd_op), seconds, cmd_elapsed)
        /\ cmd_waits' = IF Len(cmd_waits) < 2
                        THEN Append(cmd_waits, <<expo(cmd_tries), cmd_sleep'>>)
                        ELSE cmd_waits
    /\ cmd_pc' = "sleep"
    /\ UNCHANGED <<task, cmd_op, cmd_tries, cmd_elapsed, cmd_requests,
                   cmd_result, cmd_exc, rd_vars, ongoing, eh_vars>>

\* a 5xx arrives after the ceiling: the retrier gives up and re-raises
response_giveup ==
    /\ cmd_pc = "waiting"
    /\ max_time_exceeded(MethodOf(cmd_op), cmd_elapsed)
    /\ \E status \in Statuses, dur \in 0..MaxReqDur :
        /\ ~returns_response(status)
        /\ cmd_t' = clock(MethodOf(cmd_op), cmd_t, dur)
        /\ cmd_statuses' = Append(cmd_statuses, status)
    /\ cmd_pc' = "raised"
    /\ cmd_exc' = "HTTPStatusError"
    /\ UNCHANGED <<task, cmd_op, cmd_tries, cmd_elapsed, cmd_requests,
                   cmd_waits, cmd_sleep, cmd_result, rd_vars, ongoing, eh_vars>>

\* the request fails in the transport (connect error, timeout, DNS): not an
\* HTTPStatusError, so the decorator lets it through and so does the wrapper
request_network_error ==
    /\ cmd_pc = "waiting"
    /\ \E dur \in 0..MaxReqDur : cmd_t' = clock(MethodOf(cmd_op), cmd_t, dur)
    /\ cmd_pc' = "raised"
    /\ cmd_exc' = "TransportError"
    /\ UNCHANGED <<task, cmd_op, cmd_tries, cmd_elapsed, cmd_requests,
                   cmd_statuses, cmd_waits, cmd_sleep, cmd_result, rd_vars,
                   ongoing, eh_vars>>

\* asyncio.sleep(seconds) of the retrier is over
retry_wake ==
    /\ cmd_pc = "sleep"
    /\ cmd_t' = clock(MethodOf(cmd_op), cmd_t, cmd_sleep)
    /\ cmd_pc' = "attempt"
    /\ UNCHANGED <<task, cmd_op, cmd_tries, cmd_elapsed, cmd_requests,
                   cmd_statuses, cmd_waits, cmd_sleep, cmd_result, cmd_exc,
                   rd_vars, ongoing, eh_vars>>


(* --------------------------- stream readers ---------------------------- *)
\* the "type" values the dispatcher names, and one it does not
EventTypes == {"gameStart", "gameFinish", "challenge", "challengeCanceled",
               "challengeDeclined", "foo"}

\* a line of the response body: optional surrounding whitespace `ws` around
\* a body that is empty, a JSON object with the given "type", or not JSON
Lines == {[ws |-> w, body |-> b] :
            w \in BOOLEAN, b \in {"", "garbage"} \cup EventTypes}

\* no line has been read yet
NoLine == [ws |-> FALSE, body |-> "none"]

\* Mutant of strip: the test is made on the line as received (`if line:`)
strip_identity(line) == line

\* str.strip(): the surrounding whitespace is removed
strip(line) == [ws |-> FALSE, body |-> line.body]

\* truth value of a str: non-empty
truthy(line) == line.ws \/ line.body # ""

\* json.loads raises JSONDecodeError on a text that is not JSON
json_decodes(line) == line.body \in EventTypes

\* json.loads(line): the decoded object (surrounding whitespace is allowed)
json_loads(line, id) == [id |-> id, type |-> line.body]

\* lines 63-66: the event a line yields
line_event(line, id) ==
    IF truthy(strip(line)) THEN json_loads(line, id)
                           ELSE [id |-> id, type |-> "ping"]

\* lines 63-64: json.loads is reached and raises
line_raises(line) == truthy(strip(line)) /\ ~json_decodes(line)

\* httpx Response.raise_for_status: raises HTTPStatusError unless 2xx
raise_for_status(status) == ~(status >= 200 /\ status < 300)

\* Mutant of the exit of `async with`: the response is left open
aexit_leaks(sessions) == sessions

\* `async with self.client.stream(...) as response` is left (normally or by
\* an exception): the response is closed
aexit(sessions) == sessions - 1

\* `async with self.client.stream(...)`: the request is answered with a
\* status line and the response is open
stream_open ==
    /\ rd_pc = "open"
    /\ rd_opens < MaxOpens
    /\ \E status \in Statuses : rd_status' = status
    /\ rd_pc' = "opened"
    /\ rd_opens' = rd_opens + 1
    /\ rd_sessions' = rd_sessions + 1
    /\ UNCHANGED <<task, cmd_vars, rd_queries, rd_fault, rd_event, rd_line, srv_sent,
                   delivered, ongoing, eh_vars>>

\* the streaming request fails in the transport: the error is not an
\* HTTPStatusError and leaves the generator
stream_open_error ==
    /\ rd_pc = "open"
    /\ rd_opens < MaxOpens
    /\ rd_pc' = "raised"
    /\ rd_fault' = "connect"
    /\ rd_opens' = rd_opens + 1
    /\ UNCHANGED <<task, cmd_vars, rd_status, rd_sessions, rd_queries,
                   rd_event, rd_line, srv_sent, delivered, ongoing, eh_vars>>

\* response.raise_for_status() passes: the generator waits for a line
stream_status_ok ==
    /\ rd_pc = "opened"
    /\ ~raise_for_status(rd_status)
    /\ rd_pc' = "reading"
    /\ UNCHANGED <<task, cmd_vars, rd_status, rd_sessions, rd_opens,
                   rd_queries, rd_fault, rd_event, rd_line, srv_sent, delivered,
                   ongoing, eh_vars>>

\* watch_control_stream: raise_for_status raises, the response is closed,
\* `except httpx.HTTPStatusError: pass` and the loop starts over
control_status_error ==
    /\ task = "control"
    /\ rd_pc = "opened"
    /\ raise_for_status(rd_status)
    /\ rd_sessions' = aexit(rd_sessions)
    /\ rd_fault' = "status"
    /\ rd_pc' = "open"
    /\ UNCHANGED <<task, cmd_vars, rd_status, rd_opens, rd_queries, rd_event, rd_line,
                   srv_sent, delivered, ongoing, eh_vars>>

\* watch_game_stream: raise_for_status raises, the response is closed and
\* the except clause calls get_ongoing_games
game_status_error ==
    /\ task = "game"
    /\ rd_pc = "opened"
    /\ raise_for_status(rd_status)
    /\ rd_sessions' = aexit(rd_sessions)
    /\ rd_fault' = "status"
    /\ rd_pc' = "query"
    /\ rd_queries' = rd_queries + 1
    /\ call_start("get_ongoing_games")
    /\ UNCHANGED <<task, rd_status, rd_opens, rd_event, rd_line, srv_sent, delivered,
                   ongoing, eh_vars>>

\* get_ongoing_games returned: `if game_id not in ...: return`, else the
\* loop starts over
game_query_returned ==
    /\ task = "game"
    /\ rd_pc = "query"
    /\ cmd_pc = "returned"
    /\ rd_pc' = IF cmd_result # "[game_id]" THEN "done" ELSE "open"
    /\ call_end
    /\ UNCHANGED <<task, rd_status, rd_sessions, rd_opens, rd_queries, rd_fault,
                   rd_event, rd_line, srv_sent, delivered, ongoing, eh_vars>>

\* get_ongoing_games raised inside the except clause: the exception leaves
\* the generator
game_query_raised ==
    /\ task = "game"
    /\ rd_pc = "query"
    /\ cmd_pc = "raised"
    /\ rd_pc' = "raised"
    /\ UNCHANGED <<task, cmd_vars, rd_status, rd_sessions, rd_opens,
                   rd_queries, rd_fault, rd_event, rd_line, srv_sent, delivered,
                   ongoing, eh_vars>>

\* a line arrives and is turned into an event, which is yielded
stream_line_yield ==
    /\ rd_pc = "reading"
    /\ srv_sent < MaxLines
    /\ \E line \in Lines :
        /\ ~line_raises(line)
        /\ rd_line' = line
        /\ rd_event' = line_event(line, srv_sent + 1)
    /\ srv_sent' = srv_sent + 1
    /\ delivered' = Append(delivered, rd_event'.id)
    /\ rd_pc' = "yielded"
    /\ UNCHANGED <<task, cmd_vars, rd_status, rd_sessions, rd_opens,
                   rd_queries, rd_fault, ongoing, eh_vars>>

\* a line arrives that json.loads rejects: JSONDecodeError closes the
\* response on its way out and leaves the generator
stream_line_decode_error ==
    /\ rd_pc = "reading"
    /\ srv_sent < MaxLines
    /\ \E line \in Lines : line_raises(line) /\ rd_line' = line
    /\ srv_sent' = srv_sent + 1
    /\ rd_sessions' = aexit(rd_sessions)
    /\ rd_fault' = "decode"
    /\ rd_pc' = "raised"
    /\ UNCHANGED <<task, cmd_vars, rd_status, rd_opens, rd_queries, rd_event,
                   delivered, ongoing, eh_vars>>

\* the connection breaks while a line is awaited: the transport error
\* closes the response on its way out and leaves the generator
stream_read_error ==
    /\ rd_pc = "reading"
    /\ rd_sessions' = aexit(rd_sessions)
    /\ rd_fault' = "read"
    /\ rd_pc' = "raised"
    /\ UNCHANGED <<task, cmd_vars, rd_status, rd_opens, rd_queries, rd_event, rd_line,
                   srv_sent, delivered, ongoing, eh_vars>>

\* Mutant of the end of the body: without the `return` the loop starts over
stream_end_of_body_loops ==
    /\ rd_pc = "reading"
    /\ rd_sessions' = aexit(rd_sessions)
    /\ rd_fault' = "eof"
    /\ rd_pc' = "open"
    /\ UNCHANGED <<task, cmd_vars, rd_status, rd_opens, rd_queries, rd_event,
                   rd_line, srv_sent, delivered, ongoing, eh_vars>>

\* the body ends gracefully: aiter_lines is exhausted, the response is
\* closed and `return` ends the generator
stream_end_of_body ==
    /\ rd_pc = "reading"
    /\ rd_sessions' = aexit(rd_sessions)
    /\ rd_fault' = "eof"
    /\ rd_pc' = "done"
    /\ UNCHANGED <<task, cmd_vars, rd_status, rd_opens, rd_queries, rd_event, rd_line,
                   srv_sent, delivered, ongoing, eh_vars>>

\* the consumer of the per-game stream takes the event and asks for the next
game_consume ==
    /\ task = "game"
    /\ rd_pc = "yielded"
    /\ rd_pc' = "reading"
    /\ UNCHANGED <<task, cmd_vars, rd_status, rd_sessions, rd_opens,
                   rd_queries, rd_fault, rd_event, rd_line, srv_sent, delivered,
                   ongoing, eh_vars>>

\* the game ends on the server: it leaves /api/account/playing
game_ends ==
    /\ task = "game"
    /\ ongoing
    /\ ongoing' = FALSE
    /\ UNCHANGED <<task, cmd_vars, rd_vars, eh_vars>>

(* --------------------------- EventHandler.run -------------------------- *)
Call(handler, event, payload) ==
    [handler |-> handler, event |-> event.id, payload |-> payload]

\* line 14 and the first step of the `async for`
eh_start ==
    /\ task = "control"
    /\ eh_pc = "init"
    /\ mgr_started' = mgr_started + 1
    /\ mgr_pc' = "running"
    /\ eh_pc' = "next"
    /\ rd_pc' = "open"
    /\ UNCHANGED <<task, cmd_vars, rd_status, rd_sessions, rd_opens,
                   rd_queries, rd_fault, rd_event, rd_line, srv_sent, delivered,
                   ongoing, calls, ch_active>>

\* Mutant of the synchronous branches: the handler is not called
eh_sync_skips(type, handler, payload) ==
    /\ task = "control"
    /\ eh_pc = "next"
    /\ rd_pc = "yielded"
    /\ rd_event.type = type
    /\ rd_pc' = "reading"
    /\ UNCHANGED <<task, cmd_vars, rd_status, rd_sessions, rd_opens,
                   rd_queries, rd_fault, rd_event, rd_line, srv_sent,
                   delivered, ongoing, eh_vars>>

\* a synchronous handler is called with (or without) the event and the loop
\* asks the generator for the next event
eh_sync(type, handler, payload) ==
    /\ task = "control"
    /\ eh_pc = "next"
    /\ rd_pc = "yielded"
    /\ rd_event.type = type
    /\ calls' = Append(calls, Call(handler, rd_event, payload))
    /\ rd_pc' = "reading"
    /\ UNCHANGED <<task, cmd_vars, rd_status, rd_sessions, rd_opens,
                   rd_queries, rd_fault, rd_event, rd_line, srv_sent, delivered,
                   ongoing, eh_pc, ch_active, mgr_started, mgr_pc>>

\* lines 19-20
eh_on_game_start == eh_sync("gameStart", "on_game_start", TRUE)

\* lines 22-23: on_game_finish() takes no argument
eh_on_game_finish == eh_sync("gameFinish", "on_game_finish", FALSE)

\* lines 28-29
eh_on_challenge_cancel == eh_sync("challengeCanceled", "on_challenge_cancel", TRUE)

\* Mutant of the challenge branch: the coroutine is started as a task and
\* not awaited
eh_on_challenge_not_awaited ==
    /\ task = "control"
    /\ eh_pc = "next"
    /\ rd_pc = "yielded"
    /\ rd_event.type = "challenge"
    /\ calls' = Append(calls, Call("on_challenge", rd_event, TRUE))
    /\ ch_active' = ch_active + 1
    /\ rd_pc' = "reading"
    /\ UNCHANGED <<task, cmd_vars, rd_status, rd_sessions, rd_opens,
                   rd_queries, rd_fault, rd_event, rd_line, srv_sent,
                   delivered, ongoing, eh_pc, mgr_started, mgr_pc>>

\* lines 25-26: the coroutine on_challenge(event) is awaited
eh_on_challenge ==
    /\ task = "control"
    /\ eh_pc = "next"
    /\ rd_pc = "yielded"
    /\ rd_event.type = "challenge"
    /\ calls' = Append(calls, Call("on_challenge", rd_event, TRUE))
    /\ ch_active' = ch_active + 1
    /\ eh_pc' = "in_challenge"
    /\ UNCHANGED <<task, cmd_vars, rd_vars, ongoing, mgr_started, mgr_pc>>

\* on_challenge completes and the loop asks for the next event
eh_challenge_done ==
    /\ task = "control"
    /\ eh_pc = "in_challenge"
    /\ ch_active' = ch_active - 1
    /\ eh_pc' = "next"
    /\ rd_pc' = "reading"
    /\ UNCHANGED <<task, cmd_vars, rd_status, rd_sessions, rd_opens,
                   rd_queries, rd_fault, rd_event, rd_line, srv_sent, delivered,
                   ongoing, calls, mgr_started, mgr_pc>>

\* Mutant of the fall-through: an event that no branch names is an error
eh_ignore_raises ==
    /\ task = "control"
    /\ eh_pc = "next"
    /\ rd_pc = "yielded"
    /\ rd_event.type \notin {"gameStart", "gameFinish", "challenge",
                             "challengeCanceled"}
    /\ eh_pc' = IF rd_event.type \in {"ping", "challengeDeclined"}
                THEN "next" ELSE "raised"
    /\ rd_pc' = "reading"
    /\ UNCHANGED <<task, cmd_vars, rd_status, rd_sessions, rd_opens,
                   rd_queries, rd_fault, rd_event, rd_line, srv_sent,
                   delivered, ongoing, calls, ch_active, mgr_started, mgr_pc>>

\* lines 16-17, 31-32 and the fall-through of the if/elif chain
eh_ignore ==
    /\ task = "control"
    /\ eh_pc = "next"
    /\ rd_pc = "yielded"
    /\ rd_event.type \notin {"gameStart", "gameFinish", "challenge",
                             "challengeCanceled"}
    /\ rd_pc' = "reading"
    /\ UNCHANGED <<task, cmd_vars, rd_status, rd_sessions, rd_opens,
                   rd_queries, rd_fault, rd_event, rd_line, srv_sent, delivered,
                   ongoing, eh_vars>>

\* the generator returned: the `async for` ends and run() returns
eh_stream_end ==
    /\ task = "control"
    /\ eh_pc = "next"
    /\ rd_pc = "done"
    /\ eh_pc' = "returned"
    /\ UNCHANGED <<task, cmd_vars, rd_vars, ongoing, calls, ch_active,
                   mgr_started, mgr_pc>>

\* the generator raised: the exception leaves the `async for` and run()
eh_stream_raise ==
    /\ task = "control"
    /\ eh_pc = "next"
    /\ rd_pc = "raised"
    /\ eh_pc' = "raised"
    /\ UNCHANGED <<task, cmd_vars, rd_vars, ongoing, calls, ch_active,
                   mgr_started, mgr_pc>>

\* Mutant of the background task: its exception reaches run() (as if the
\* coroutine were awaited or gathered with the loop)
mgr_fail_aborts ==
    /\ task = "control"
    /\ mgr_pc = "running"
    /\ mgr_pc' = "failed"
    /\ eh_pc' = "raised"
    /\ UNCHANGED <<task, cmd_vars, rd_vars, ongoing, calls, ch_active,
                   mgr_started>>

\* the task running game_manager.run() dies with an exception
mgr_fail ==
    /\ task = "control"
    /\ mgr_pc = "running"
    /\ mgr_pc' = "failed"
    /\ UNCHANGED <<task, cmd_vars, rd_vars, ongoing, eh_pc, calls, ch_active,
                   mgr_started>>

(* ------------------------------ behaviours ----------------------------- *)
Init ==
    /\ task \in Tasks
    /\ cmd_pc = "idle"
    /\ cmd_op = "none"
    /\ cmd_tries = 0
    /\ cmd_t = 0
    /\ cmd_elapsed = 0
    /\ cmd_requests = 0
    /\ cmd_statuses = <<>>
    /\ cmd_waits = <<>>
    /\ cmd_sleep = 0
    /\ cmd_result = "none"
    /\ cmd_exc = "none"
    /\ rd_pc = IF task = "game" THEN "open" ELSE "idle"
    /\ rd_status = 0
    /\ rd_sessions = 0
    /\ rd_opens = 0
    /\ rd_queries = 0
    /\ rd_fault = "none"
    /\ rd_event = [id |-> 0, type |-> "none"]
    /\ rd_line = NoLine
    /\ srv_sent = 0
    /\ delivered = <<>>
    /\ ongoing = TRUE
    /\ eh_pc = "init"
    /\ calls = <<>>
    /\ ch_active = 0
    /\ mgr_started = 0
    /\ mgr_pc = "not_started"

Next ==
    \/ command_invoke
    \/ retry_attempt
    \/ response_returned
    \/ response_backoff
    \/ response_giveup
    \/ request_network_error
    \/ retry_wake
    \/ stream_open
    \/ stream_open_error
    \/ stream_status_ok
    \/ control_status_error
    \/ game_status_error
    \/ game_query_returned
    \/ game_query_raised
    \/ stream_line_yield
    \/ stream_line_decode_error
    \/ stream_read_error
    \/ stream_end_of_body
    \/ game_consume
    \/ game_ends
    \/ eh_start
    \/ eh_on_game_start
    \/ eh_on_game_finish
    \/ eh_on_challenge_cancel
    \/ eh_on_challenge
    \/ eh_challenge_done
    \/ eh_ignore
    \/ eh_stream_end
    \/ eh_stream_raise
    \/ mgr_fail

Spec == Init /\ [][Next]_vars

\* Fairness of the event loop: a task that can take a step (the retrier, the
\* generator, its consumer) eventually takes one.  Nothing is assumed of the
\* manager's task or of the game ending.
ReaderStep ==
    \/ retry_attempt \/ response_returned \/ response_backoff
    \/ response_giveup \/ request_network_error \/ retry_wake
    \/ stream_open \/ stream_open_error \/ stream_status_ok
    \/ control_status_error \/ game_status_error \/ game_query_returned
    \/ game_query_raised \/ stream_line_yield \/ stream_line_decode_error
    \/ stream_read_error \/ stream_end_of_body

ConsumerStep ==
    \/ command_invoke \/ game_consume \/ eh_start \/ eh_on_game_start
    \/ eh_on_game_finish \/ eh_on_challenge_cancel \/ eh_on_challenge
    \/ eh_challenge_done \/ eh_ignore \/ eh_stream_end \/ eh_stream_raise

FairSpec == Spec /\ WF_vars(ReaderStep) /\ WF_vars(ConsumerStep)

(* =============================== claims ================================ *)
Is2xx(status) == status >= 200 /\ status < 300
Is4xx(status) == status >= 400 /\ status < 500
Is5xx(status) == status >= 500

\* C1 (as claimed): no fault met while opening or reading a stream (transport
\* error, decode error) ever leaves the generator towards its consumer.
C1_Original ==
    ~(rd_pc = "raised" /\ rd_fault \in {"connect", "read", "decode"})

\* C2 (as claimed): the control stream never ends on its own and
\* EventHandler.run never returns.
C2_Original ==
    task = "control" => (rd_pc # "done" /\ eh_pc # "returned")

\* C3 (as claimed): after a transport failure while reading, the reader
\* eventually yields a further event, as long as the server has lines left to
\* send and the stream can still be opened.
C3_Original ==
    \A n \in 0..MaxLines :
        (rd_fault = "read" /\ Len(delivered) = n
            /\ srv_sent < MaxLines /\ rd_opens < MaxOpens)
        ~> (Len(delivered) > n \/ srv_sent = MaxLines \/ rd_opens = MaxOpens)

\* C4: in a command routed through post, a 4xx response is always the last
\* response of the invocation: no request follows it, and the wrapper has
\* returned False; a 4xx on the first request means exactly one request.
C4_NoRetryOn4xx ==
    cmd_op \in PostOps =>
        \A i \in 1..Len(cmd_statuses) :
            Is4xx(cmd_statuses[i]) =>
                /\ i = Len(cmd_statuses)
                /\ cmd_requests = i
                /\ cmd_pc = "returned"
                /\ cmd_result = "False"

C4_Witness ==
    /\ cmd_op = "accept_challenge"
    /\ cmd_statuses = <<404>>
    /\ cmd_requests = 1
    /\ cmd_result = "False"

\* a post command that got 5xx, 5xx, 2xx and has returned
TwoRetriesThenSuccess ==
    /\ cmd_op \in PostOps
    /\ cmd_pc = "returned"
    /\ Len(cmd_statuses) = 3
    /\ Is5xx(cmd_statuses[1])
    /\ Is5xx(cmd_statuses[2])
    /\ Is2xx(cmd_statuses[3])

\* C5 (as claimed): after 5xx, 5xx, 2xx three requests were issued and the
\* delay before the second retry is strictly greater than the delay before
\* the first.
C5_Original ==
    TwoRetriesThenSuccess =>
        /\ cmd_requests = 3
        /\ cmd_waits[2][2] > cmd_waits[1][2]

\* C5 (amended): after 5xx, 5xx, 2xx three requests were issued; each delay
\* lies between 0 and the value of the wait generator, and that value (the
\* upper bound of the delay) is strictly greater for the second retry.
C5_Amended ==
    TwoRetriesThenSuccess =>
        /\ cmd_requests = 3
        /\ Len(cmd_waits) = 2
        /\ cmd_waits[2][1] > cmd_waits[1][1]
        /\ \A k \in 1..2 : cmd_waits[k][2] >= 0 /\ cmd_waits[k][2] <= cmd_waits[k][1]

C5_Witness ==
    /\ TwoRetriesThenSuccess
    /\ cmd_waits[2][2] <= cmd_waits[1][2]

\* C6 (as claimed): a post command that ends on a 5xx response (its retries
\* are exhausted, no transport error involved) returns False to its caller
\* and does not raise.
C6_Original ==
    (/\ cmd_op \in PostOps
     /\ cmd_pc \in {"returned", "raised"}
     /\ cmd_exc # "TransportError"
     /\ cmd_statuses # <<>>
     /\ Is5xx(Last(cmd_statuses)))
    => (cmd_pc = "returned" /\ cmd_result = "False")

\* C7 (as claimed): a network error of the HTTP request never leaves the
\* command as an exception.
C7_Original ==
    cmd_pc = "raised" => cmd_exc # "TransportError"

\* C8: once an invocation has received a 2xx response it issues no further
\* request.
C8_NoRequestAfterSuccess ==
    [][(cmd_statuses # <<>> /\ Is2xx(Last(cmd_statuses)))
        => cmd_requests' <= cmd_requests]_vars

C8_Witness ==
    /\ cmd_op \in PostOps
    /\ cmd_pc = "returned"
    /\ cmd_requests >= 2
    /\ Is2xx(Last(cmd_statuses))

\* C9 (as claimed): a per-game reader that stopped after a 5xx or a
\* disconnect did so only with the game absent from the ongoing games (the
\* game never comes back once it has left them).
C9_Original ==
    (/\ task = "game"
     /\ rd_pc \in {"done", "raised"}
     /\ \/ rd_fault = "read"
        \/ rd_fault = "status" /\ Is5xx(rd_status))
    => ~ongoing

\* C10: at most one streaming response is open, and none is open whenever
\* the reader is about to open the stream, is in its except clause or has
\* finished.
C10_OneSession ==
    /\ rd_sessions \in {0, 1}
    /\ rd_pc \in {"idle", "open", "query", "done", "raised"} => rd_sessions = 0

C10_Witness ==
    /\ rd_opens >= 2
    /\ rd_sessions = 1
    /\ rd_pc = "reading"

\* a blank line: empty, or whitespace only
IsBlank(line) == line.body = ""

\* a non-blank line that is a JSON object
IsJson(line) == line.body \in EventTypes

\* number of times x occurs in seq
Count(seq, x) == Cardinality({i \in 1..Len(seq) : seq[i] = x})

\* C11: the last line read, if blank, was not a decode error and yielded
\* exactly one event, of type ping; if a JSON object, it yielded exactly one
\* event, the object decoded from it.
C11_BlankIsPing ==
    rd_line # NoLine =>
        /\ IsBlank(rd_line) =>
            /\ rd_fault # "decode"
            /\ rd_event = [id |-> srv_sent, type |-> "ping"]
            /\ Count(delivered, srv_sent) = 1
        /\ IsJson(rd_line) =>
            /\ rd_fault # "decode"
            /\ rd_event = [id |-> srv_sent, type |-> rd_line.body]
            /\ Count(delivered, srv_sent) = 1

C11_Witness ==
    /\ rd_line = [ws |-> TRUE, body |-> ""]
    /\ rd_pc = "yielded"
    /\ rd_event.type = "ping"
    /\ srv_sent >= 2

\* C12 (as claimed): a malformed non-blank line does not end the sequence:
\* after it the generator has neither raised nor returned, and
\* EventHandler.run has not failed.
C12_Original ==
    (rd_line # NoLine /\ ~IsBlank(rd_line) /\ ~IsJson(rd_line))
    => (rd_pc \notin {"raised", "done"} /\ eh_pc # "raised")

\* the handler the dispatcher is to call for an event type
HandlerFor(type) ==
    CASE type = "gameStart" -> "on_game_start"
      [] type = "gameFinish" -> "on_game_finish"
      [] type = "challengeCanceled" -> "on_challenge_cancel"
      [] type = "challenge" -> "on_challenge"
      [] OTHER -> "none"

\* handler calls are made for events in the order they were delivered, at
\* most one per event, and only for events already delivered
CallsInOrder ==
    /\ \A i \in 1..Len(calls) : calls[i].event \in 1..srv_sent
    /\ \A i \in 1..Len(calls), j \in 1..Len(calls) :
        i < j => calls[i].event < calls[j].event

\* the step in which the dispatcher leaves an event of a synchronously
\* handled type (the generator is resumed for the next event) is the step
\* that calls the handler of that type for that event, once; for gameStart
\* the event is passed
SyncRouted ==
    \A type \in {"gameStart", "gameFinish", "challengeCanceled"} :
        (/\ task = "control"
         /\ rd_pc = "yielded"
         /\ rd_event.type = type
         /\ rd_pc' # "yielded")
        => /\ Len(calls') = Len(calls) + 1
           /\ SubSeq(calls', 1, Len(calls)) = calls
           /\ Last(calls').handler = HandlerFor(type)
           /\ Last(calls').event = rd_event.id
           /\ type = "gameStart" => Last(calls').payload

\* C13: every gameStart, gameFinish and challengeCanceled event is routed to
\* its handler exactly once, in order, in the step before the next event is
\* taken from the stream.
C13_SyncRouting == [](CallsInOrder) /\ [][SyncRouted]_vars

C13_Witness ==
    /\ Len(calls) >= 2
    /\ calls[1] = [handler |-> "on_game_start", event |-> 1, payload |-> TRUE]
    /\ calls[2].handler = "on_game_finish"
    /\ srv_sent = 3

\* while an on_challenge coroutine is in progress the dispatcher is waiting
\* for it, on the challenge event it was called with
ChallengeAwaited ==
    ch_active > 0 =>
        /\ ch_active = 1
        /\ eh_pc = "in_challenge"
        /\ rd_pc = "yielded"
        /\ rd_event.type = "challenge"
        /\ Last(calls) = [handler |-> "on_challenge", event |-> rd_event.id,
                          payload |-> TRUE]

\* no line is read, no event delivered and no handler called while an
\* on_challenge coroutine is in progress; and the dispatcher leaves a
\* challenge event only in the step that ends its on_challenge coroutine
ChallengeBlocks ==
    /\ ch_active > 0 =>
        /\ srv_sent' = srv_sent
        /\ delivered' = delivered
        /\ calls' = calls
    /\ (/\ task = "control"
        /\ rd_pc = "yielded"
        /\ rd_event.type = "challenge"
        /\ rd_pc' # "yielded")
       => /\ ch_active = 1
          /\ ch_active' = 0
          /\ Last(calls).event = rd_event.id

\* C14: for every challenge event the dispatcher awaits on_challenge to
\* completion before it takes the next event from the control stream.
C14_AwaitsChallenge == [](ChallengeAwaited) /\ [][ChallengeBlocks]_vars

C14_Witness ==
    /\ calls # <<>>
    /\ Last(calls).handler = "on_challenge"
    /\ ch_active = 0
    /\ srv_sent > Last(calls).event

\* the step the dispatcher takes on an event of type ping, challengeDeclined
\* or of a type it does not know: no handler is called, run() does not fail,
\* and the loop is back at asking for the next event
IgnoredQuietly ==
    (/\ task = "control"
     /\ eh_pc = "next"
     /\ rd_pc = "yielded"
     /\ HandlerFor(rd_event.type) = "none")
    => /\ calls' = calls
       /\ ch_active' = ch_active
       /\ eh_pc' = "next"
       /\ rd_pc' \in {"yielded", "reading"}

\* C15: an event of type ping, challengeDeclined or of an unrecognized type
\* invokes no handler and raises no error; the loop goes on.
C15_IgnoresOthers == [][IgnoredQuietly]_vars

C15_Witness ==
    /\ rd_event = [id |-> 2, type |-> "foo"]
    /\ srv_sent = 2
    /\ rd_pc = "reading"
    /\ eh_pc = "next"
    /\ calls = <<>>

\* the manager's loop is started once, when run() starts and before the
\* stream is opened, and run() fails only if the stream does
StartedOnce ==
    task = "control" =>
        /\ mgr_started = (IF eh_pc = "init" THEN 0 ELSE 1)
        /\ eh_pc = "init" => (rd_pc = "idle" /\ rd_opens = 0)
        /\ mgr_pc = "not_started" <=> eh_pc = "init"
        /\ eh_pc = "raised" => rd_pc = "raised"

\* run() does not wait for the manager's task, a failure of it changes
\* nothing in the dispatcher or the reader, and events are still routed to
\* their handlers after it
NotAwaited ==
    /\ (eh_pc = "init" /\ eh_pc' # "init")
        => (eh_pc' = "next" /\ mgr_pc' = "running")
    /\ mgr_pc' # mgr_pc
        => (mgr_pc' = "failed" => UNCHANGED <<eh_pc, rd_vars, calls, ch_active>>)
    /\ (/\ mgr_pc = "failed"
        /\ rd_pc = "yielded"
        /\ eh_pc = "next"
        /\ HandlerFor(rd_event.type) # "none"
        /\ <<eh_pc, rd_pc>>' # <<eh_pc, rd_pc>>)
       => /\ Len(calls') = Len(calls) + 1
          /\ Last(calls').handler = HandlerFor(rd_event.type)
          /\ eh_pc' # "raised"

\* C16: run() starts the manager's loop exactly once, as a task it does not
\* await, before consuming the control stream; a failure of that task does
\* not abort the dispatch loop.
C16_BackgroundTask == [](StartedOnce) /\ [][NotAwaited]_vars

C16_Witness ==
    /\ mgr_pc = "failed"
    /\ mgr_started = 1
    /\ eh_pc = "next"
    /\ Len(calls) = 2
    /\ rd_pc = "yielded"

\* C17 (as claimed): every attempt to open the stream after the first one is
\* preceded by a wait: the reader enters the state of opening the stream
\* again only from a sleep.
C17_Original ==
    [][(rd_opens >= 1 /\ rd_pc # "open" /\ rd_pc' = "open")
        => rd_pc = "sleep"]_vars

\* C18 (as claimed): an invocation of make_move sends at most one request.
C18_Original ==
    cmd_op = "make_move" => cmd_requests <= 1

\* a call through get is over only by a response below 500 or by a transport
\* error, never by the retrier giving up on 5xx responses; the per-game
\* reader stays in its except clause as long as the call is not over
GetEndsBelow500 ==
    cmd_op \in GetOps =>
        /\ cmd_pc = "returned" =>
            (cmd_statuses # <<>> /\ Last(cmd_statuses) < 500)
        /\ cmd_pc = "raised" => cmd_exc = "TransportError"
        /\ \A i \in 1..(Len(cmd_statuses) - 1) : Is5xx(cmd_statuses[i])
        /\ (task = "game" /\ cmd_pc \in {"attempt", "waiting", "sleep"})
            => rd_pc = "query"

\* the per-game reader leaves its except clause only with the result of a
\* response below 500, or by the transport error of the call
QueryLeftBelow500 ==
    (rd_pc = "query" /\ rd_pc' # "query")
    => \/ cmd_pc = "returned" /\ Last(cmd_statuses) < 500
       \/ cmd_pc = "raised" /\ cmd_exc = "TransportError"

\* C19: get has no elapsed-time ceiling: while every response is a 5xx it
\* keeps retrying and neither returns nor raises, and so do
\* get_ongoing_games and the termination check of the per-game reader.
C19_GetNoCeiling == [](GetEndsBelow500) /\ [][QueryLeftBelow500]_vars

C19_Witness ==
    /\ task = "game"
    /\ rd_pc = "query"
    /\ cmd_op = "get_ongoing_games"
    /\ cmd_pc = "sleep"
    /\ Len(cmd_statuses) = 10
    /\ \A i \in 1..10 : Is5xx(cmd_statuses[i])

\* a per-game reader whose stream ended gracefully has terminated, with no
\* call of get_ongoing_games in progress
EofIsFinal ==
    (task = "game" /\ rd_fault = "eof") => (rd_pc = "done" /\ cmd_pc = "idle")

\* get_ongoing_games is called only in the step that follows a non-2xx
\* status of the opening; the graceful end of the body makes no such call
\* and is followed by no further attempt to open the stream
QueryOnlyOnStatus ==
    /\ rd_queries' # rd_queries
        => /\ task = "game"
           /\ rd_pc = "opened"
           /\ ~Is2xx(rd_status)
           /\ rd_queries' = rd_queries + 1
    /\ (task = "game" /\ rd_pc = "reading" /\ rd_fault' = "eof")
        => (rd_pc' = "done" /\ rd_queries' = rd_queries)
    /\ (task = "game" /\ rd_fault = "eof")
        => (rd_opens' = rd_opens /\ rd_queries' = rd_queries)

\* C20: the per-game reader queries the ongoing games only after a non-2xx
\* status on opening; at a graceful end of the body it terminates without a
\* query and without opening the stream again, the game ongoing or not.
C20_EofEndsGameStream == [](EofIsFinal) /\ [][QueryOnlyOnStatus]_vars

C20_Witness ==
    /\ task = "game"
    /\ rd_fault = "eof"
    /\ rd_pc = "done"
    /\ ongoing
    /\ rd_queries = 0
    /\ rd_opens < MaxOpens
    /\ srv_sent < MaxLines

====
